---- MODULE Spec2Model ----
(***************************************************************************)
(* SnakeX: the terminal Snake game of src/code/game.cpp, with the earlier  *)
(* draft src/code/snake_draft2.cpp and the ncurses draft                   *)
(* src/unnamed/part_000.                                                   *)
(*                                                                         *)
(* A Position is the pair <<x, y>>.  A Direction is one of the strings of  *)
(* Direction.  A key byte is its character code.                           *)
(***************************************************************************)
EXTENDS Integers, Sequences, FiniteSets, TLC

(***************************************************************************)
(* Bounds of the model.                                                    *)
(***************************************************************************)
\* food eaten in one session: a tick that would eat beyond it is not taken
MaxScore == 2
\* foods eaten in a session of the long sessions of game.cpp
SessionMaxScore == 8
\* rand() returns a value of RandLo..RandHi
RandLo == 7
RandHi == 8
\* the scores.txt record read at start holds values of 0..MaxSaved
MaxSaved == 0
\* food eaten in one session of the ncurses draft
NcMaxScore == 1
\* food eaten in one session of snake_draft2.cpp
D2MaxScore == 1
\* keys the player types in one run of the whole process
MaxTyped == 3
\* the class Snake alone: side of the square its head stays in, and its cells
SnakeBox == 4
SnakeMaxLen == 4
\* food eaten in one session when the grid is followed
RenderMaxScore == 1

(***************************************************************************)
(* Program constants.                                                      *)
(***************************************************************************)
MinGameSize == 10
InitialSpeedMs == 140
speedStep == 8
minSpeedMs == 30
ApplesPerSpeedUp == 4
KEY_NUL == 0
KEY_ESC == 27
CH_LBRACKET == 91
CH_A == 65
CH_B == 66
CH_C == 67
CH_D == 68
CH_P == 80
CH_Q == 81
CH_R == 82
CH_S == 83
CH_W == 87
CH_a == 97
CH_z == 122
ERR == -1
KEY_DOWN == 258
KEY_UP == 259
KEY_LEFT == 260
KEY_RIGHT == 261
D2InitialSpeedMs == 120
D2MinSpeedMs == 40
D2SpeedStep == 3
NcW == 40
NcH == 20

VARIABLES
    board,          \* GameBoard: [width, height], and [grid] in the runs that follow it
    rand,           \* the values rand() returns in this run
    snake,          \* Snake: [body, current, next, growing]
    food,           \* Food::pos
    score,
    highScore,
    previousScore,
    gameOver,
    running,
    paused,
    speedMs,
    appleCount,
    scoresFile,     \* the record in scores.txt: [previousScore, highScore]
    pc,             \* where Game::run stands: "start", "run", "pause", "over", "spawn", "done"
    nc,             \* the Game object of the ncurses draft, with the place of its run()
    stdin,          \* the keyboard: [buf: bytes typed and not yet read, ahead: keys to come]
    term            \* the terminal and what the two Terminal objects saved of it

\* the variables of game.cpp
gvars == <<board, rand, snake, food, score, highScore, previousScore, gameOver,
           running, paused, speedMs, appleCount, scoresFile, pc>>

\* the keyboard and the terminal, which only the runs of the whole process
\* of game.cpp (SpecMain) follow
env == <<stdin, term>>

vars == <<gvars, nc, env>>

\* the value of a program's variables in the runs of another program
Off == "off"

Direction == {"UP", "DOWN", "LEFT", "RIGHT", "NONE"}

Min(a, b) == IF a < b THEN a ELSE b
Max(a, b) == IF a > b THEN a ELSE b

\* C++ integer division truncates toward zero
CDiv(a, b) == IF a >= 0 THEN a \div b ELSE -((-a) \div b)

(***************************************************************************)
(* Symbols of the grid buffer.                                             *)
(***************************************************************************)
EMOJI_FOOD == "food"
EMOJI_SNAKE_HEAD == "head"
EMOJI_SNAKE_BODY == "body"
BORDER_CELL == "border"
EMPTY_CELL == "empty"

(***************************************************************************)
(* class Food                                                              *)
(***************************************************************************)
\* the values of rand() in the runs that bound the food to a few cells
RandVals == RandLo..RandHi

\* values of rand() that reach every interior cell of the smallest board
FullRand == 0..(MinGameSize - 3)

\* one sample of the loop body: two rand() draws
spawnSample(maxX, maxY, r1, r2) == <<(r1 % (maxX - 2)) + 1, (r2 % (maxY - 2)) + 1>>

InBody(p, body) == \E i \in 1..Len(body) : body[i] = p

\* the resampling loop ends: some pair of draws gives a sample off snakeBody
spawnReturns(maxX, maxY, snakeBody) ==
    \E r1 \in rand, r2 \in rand : ~InBody(spawnSample(maxX, maxY, r1, r2), snakeBody)

\* mutant: the loop accepts its first sample without scanning snakeBody
spawn_IgnoringSnake(maxX, maxY, snakeBody) ==
    { spawnSample(maxX, maxY, r1, r2) : r1 \in rand, r2 \in rand }

\* the positions the resampling loop can return with: the samples that pass
\* the scan of snakeBody
spawn(maxX, maxY, snakeBody) ==
    { p \in { spawnSample(maxX, maxY, r1, r2) : r1 \in rand, r2 \in rand } :
        ~InBody(p, snakeBody) }

(***************************************************************************)
(* class Snake                                                             *)
(***************************************************************************)
NewSnake(startX, startY) ==
    [ body    |-> << <<startX, startY>>, <<startX - 1, startY>>, <<startX - 2, startY>> >>,
      current |-> "RIGHT",
      next    |-> "RIGHT",
      growing |-> FALSE ]

getHead(sn) == sn.body[1]

IsOpposite(d, current) ==
    \/ d = "UP" /\ current = "DOWN"
    \/ d = "DOWN" /\ current = "UP"
    \/ d = "LEFT" /\ current = "RIGHT"
    \/ d = "RIGHT" /\ current = "LEFT"

\* mutant: the opposite-direction test left out
setDirection_NoOppositeTest(sn, d) == [sn EXCEPT !.next = d]

setDirection(sn, d) ==
    IF IsOpposite(d, sn.current) THEN sn ELSE [sn EXCEPT !.next = d]

Step(p, d) ==
    CASE d = "UP"    -> <<p[1], p[2] - 1>>
      [] d = "DOWN"  -> <<p[1], p[2] + 1>>
      [] d = "LEFT"  -> <<p[1] - 1, p[2]>>
      [] d = "RIGHT" -> <<p[1] + 1, p[2]>>
      [] OTHER       -> p

\* mutant: a move without growth drops two segments
move_PopsTwice(sn) ==
    LET cur     == sn.next
        newHead == Step(getHead(sn), cur)
        pushed  == <<newHead>> \o sn.body
    IN  IF cur = "NONE"
        THEN [sn EXCEPT !.current = cur]
        ELSE [ body    |-> IF sn.growing THEN pushed
                           ELSE SubSeq(pushed, 1, Len(pushed) - 2),
               current |-> cur,
               next    |-> sn.next,
               growing |-> FALSE ]

\* mutant: the growth flag is not cleared when it is consumed
move_KeepsFlag(sn) ==
    LET cur     == sn.next
        newHead == Step(getHead(sn), cur)
        pushed  == <<newHead>> \o sn.body
    IN  IF cur = "NONE"
        THEN [sn EXCEPT !.current = cur]
        ELSE [ body    |-> IF sn.growing THEN pushed
                           ELSE SubSeq(pushed, 1, Len(pushed) - 1),
               current |-> cur,
               next    |-> sn.next,
               growing |-> sn.growing ]

move(sn) ==
    LET cur     == sn.next
        newHead == Step(getHead(sn), cur)
        pushed  == <<newHead>> \o sn.body
    IN  IF cur = "NONE"
        THEN [sn EXCEPT !.current = cur]
        ELSE [ body    |-> IF sn.growing THEN pushed
                           ELSE SubSeq(pushed, 1, Len(pushed) - 1),
               current |-> cur,
               next    |-> sn.next,
               growing |-> FALSE ]

\* mutant: grow() leaves the flag as it is
grow_Noop(sn) == sn

grow(sn) == [sn EXCEPT !.growing = TRUE]

\* mutant: the scan stops one cell before the tail
checkSelfCollision_SkipsTail(sn) ==
    \E i \in 2..(Len(sn.body) - 1) : sn.body[i] = getHead(sn)

checkSelfCollision(sn) ==
    \E i \in 2..Len(sn.body) : sn.body[i] = getHead(sn)

(***************************************************************************)
(* class GameBoard                                                         *)
(***************************************************************************)
Cells(w, h) == (0..(w - 1)) \X (0..(h - 1))

\* mutant: clear turns each cell over instead of overwriting it
clear_TurnsOver(grid, w, h) ==
    [ c \in DOMAIN grid |-> IF grid[c] = EMPTY_CELL THEN BORDER_CELL ELSE EMPTY_CELL ]

\* GameBoard::clear: every cell of the grid is overwritten
clear(grid, w, h) ==
    [ c \in DOMAIN grid |->
        IF c[2] = 0 \/ c[2] = h - 1 \/ c[1] = 0 \/ c[1] = w - 1
        THEN BORDER_CELL ELSE EMPTY_CELL ]

place(grid, w, h, x, y, sym) ==
    IF x >= 0 /\ x < w /\ y >= 0 /\ y < h
    THEN [grid EXCEPT ![<<x, y>>] = sym]
    ELSE grid

\* mutant: the upper tests let the last column and the last row pass
isInsideBoundaries_UpperInclusive(b, p) ==
    p[1] > 0 /\ p[1] <= b.width - 1 /\ p[2] > 0 /\ p[2] <= b.height - 1

\* mutant: the lower tests written >= instead of >
isInsideBoundaries_AllowsZero(b, p) ==
    p[1] >= 0 /\ p[1] < b.width - 1 /\ p[2] >= 0 /\ p[2] < b.height - 1

isInsideBoundaries(b, p) ==
    p[1] > 0 /\ p[1] < b.width - 1 /\ p[2] > 0 /\ p[2] < b.height - 1

\* GameBoard::GameBoard without its grid
NewBoard(w, h) == [width |-> w, height |-> h]

\* GameBoard::GameBoard: grid.assign and clear()
GameBoard(w, h) ==
    [width |-> w, height |-> h,
     grid |-> clear([c \in Cells(w, h) |-> EMPTY_CELL], w, h)]

RECURSIVE placeBody(_, _, _, _, _)
placeBody(grid, w, h, body, i) ==
    IF i > Len(body) THEN grid
    ELSE placeBody(place(grid, w, h, body[i][1], body[i][2],
                         IF i = 1 THEN EMOJI_SNAKE_HEAD ELSE EMOJI_SNAKE_BODY),
                   w, h, body, i + 1)

\* mutant: the food stamped after the snake
render_FoodLast(b, fpos, sn) ==
    place(placeBody(clear(b.grid, b.width, b.height), b.width, b.height, sn.body, 1),
          b.width, b.height, fpos[1], fpos[2], EMOJI_FOOD)

\* Game::render: the grid buffer after clear and the stamps of food and snake
render(b, fpos, sn) ==
    placeBody(place(clear(b.grid, b.width, b.height), b.width, b.height,
                    fpos[1], fpos[2], EMOJI_FOOD),
              b.width, b.height, sn.body, 1)

\* GameBoard::render: the frame written to the terminal, as the header's
\* numbers and the cells row by row
frame(b, sc, high, prev) ==
    [ header |-> [score |-> sc, prev |-> prev, high |-> high],
      rows   |-> [ y \in 0..(b.height - 1) |->
                     [ x \in 0..(b.width - 1) |-> b.grid[<<x, y>>] ] ] ]

\* the board after Game::render, in the runs that follow the grid
Rendered(b, fpos, sn) ==
    IF "grid" \in DOMAIN b THEN [b EXCEPT !.grid = render(b, fpos, sn)] ELSE b

(***************************************************************************)
(* Keyboard input.  A poll sees the bytes that stdin holds while           *)
(* handleInput runs: kbhit() is true while a byte is left, getch() takes   *)
(* the first one.                                                          *)
(***************************************************************************)
Lower(c) == c + 32

\* 'X', a key that is bound to nothing
CH_X == CH_W + 1

PollInputs ==
    { <<>>, <<KEY_NUL>>,
      <<Lower(CH_W)>>, <<Lower(CH_S)>>, <<Lower(CH_A)>>, <<CH_D>>,
      <<Lower(CH_Q)>>, <<CH_P>>, <<Lower(CH_X)>>,
      <<KEY_ESC>>, <<KEY_ESC, CH_LBRACKET>>, <<KEY_ESC, Lower(CH_Q)>>,
      <<KEY_ESC, CH_LBRACKET, CH_A>>, <<KEY_ESC, CH_LBRACKET, CH_B>>,
      <<KEY_ESC, CH_LBRACKET, CH_C>>, <<KEY_ESC, CH_LBRACKET, CH_D>> }

\* the single bytes the blocking loops of showPauseScreen and showGameOver read
LoopKeys ==
    { Lower(CH_P), CH_P, Lower(CH_Q), CH_Q, Lower(CH_R), CH_R,
      Lower(CH_W), KEY_ESC, CH_LBRACKET, CH_A }

toupper(k) == IF k >= CH_a /\ k <= CH_z THEN k - 32 ELSE k

\* Game::handleInput up to the call of togglePause: the snake and the running
\* flag it leaves, and whether togglePause is called
handleInput(sn, run, bytes) ==
    LET same == [snake |-> sn, running |-> run, pause |-> FALSE]
        dir(d) == [same EXCEPT !.snake = setDirection(sn, d)]
    IN  IF Len(bytes) = 0 THEN same
        ELSE LET k == bytes[1] IN
             IF k = KEY_NUL THEN same
             ELSE IF k = KEY_ESC
             THEN IF Len(bytes) >= 2
                  THEN LET b1 == bytes[2] IN
                       IF b1 = CH_LBRACKET /\ Len(bytes) >= 3
                       THEN LET b2 == bytes[3] IN
                            IF b2 = CH_A THEN dir("UP")
                            ELSE IF b2 = CH_B THEN dir("DOWN")
                            ELSE IF b2 = CH_C THEN dir("RIGHT")
                            ELSE IF b2 = CH_D THEN dir("LEFT")
                            ELSE same
                       ELSE same
                  ELSE same
             ELSE LET u == toupper(k) IN
                  IF u = CH_W THEN dir("UP")
                  ELSE IF u = CH_S THEN dir("DOWN")
                  ELSE IF u = CH_A THEN dir("LEFT")
                  ELSE IF u = CH_D THEN dir("RIGHT")
                  ELSE IF u = CH_Q THEN [same EXCEPT !.running = FALSE]
                  ELSE IF u = CH_P THEN [same EXCEPT !.pause = TRUE]
                  ELSE same

(***************************************************************************)
(* class Game                                                              *)
(***************************************************************************)
\* main: the board size chosen from the terminal size
gameSize(consoleW, consoleH) ==
    LET g == Min(CDiv(consoleW - 2, 2), consoleH - 6)
    IN  IF g < MinGameSize THEN MinGameSize ELSE g

\* terminal sizes (columns, rows) the game is started in
ConsoleSizes == { <<80, 16>>, <<20, 24>> }

\* the records loadScores can return: what saveScores wrote, or 0 0
SavedRecords ==
    { r \in [previousScore : 0..MaxSaved, highScore : 0..MaxSaved] :
        r.previousScore <= r.highScore }

\* Game::Game in a terminal of one of the sizes, in a run in which rand()
\* returns the values of randVals, and which follows the grid or not
NewGameOn(sizes, randVals, followGrid) ==
    \E sz \in sizes, loaded \in SavedRecords :
        LET n  == gameSize(sz[1], sz[2])
            sn == NewSnake(CDiv(n, 2), CDiv(n, 2))
        IN  /\ board = IF followGrid THEN GameBoard(n, n) ELSE NewBoard(n, n)
            /\ rand = randVals
            /\ snake = sn
            /\ food \in spawn(n, n, sn.body)
            /\ score = 0
            /\ highScore = loaded.highScore
            /\ previousScore = loaded.previousScore
            /\ gameOver = FALSE
            /\ running = TRUE
            /\ paused = FALSE
            /\ speedMs = InitialSpeedMs
            /\ appleCount = 0
            /\ scoresFile = loaded
            /\ pc = "start"
            /\ nc = [pc |-> Off]

NewGame(randVals, followGrid) == NewGameOn(ConsoleSizes, randVals, followGrid)

GameConstructed == NewGame(RandVals, FALSE)

Init == GameConstructed /\ stdin = Off /\ term = Off

\* mutant: the interval is lowered without the floor
countApple_NoFloor ==
    /\ score' = score + 1
    /\ IF appleCount + 1 >= ApplesPerSpeedUp
       THEN /\ speedMs' = speedMs - speedStep
            /\ appleCount' = 0
       ELSE /\ appleCount' = appleCount + 1
            /\ UNCHANGED speedMs
    /\ highScore' = IF score + 1 > highScore THEN score + 1 ELSE highScore

\* Game::update: the counters of a food that is eaten
countApple ==
    /\ score' = score + 1
    /\ IF appleCount + 1 >= ApplesPerSpeedUp
       THEN /\ speedMs' = Max(minSpeedMs, speedMs - speedStep)
            /\ appleCount' = 0
       ELSE /\ appleCount' = appleCount + 1
            /\ UNCHANGED speedMs
    /\ highScore' = IF score + 1 > highScore THEN score + 1 ELSE highScore

\* mutant: the food branch taken on a collision as well
update_CollisionEats(sn) ==
    LET moved == move(sn)
        head  == getHead(moved)
        cells == spawn(board.width, board.height, moved.body)
    IN  IF ~isInsideBoundaries(board, head) \/ checkSelfCollision(moved)
        THEN /\ snake' = moved
             /\ gameOver' = TRUE
             /\ countApple
             /\ UNCHANGED food
        ELSE IF head = food
        THEN /\ snake' = grow(moved)
             /\ countApple
             /\ IF cells = {} THEN UNCHANGED food ELSE food' \in cells
             /\ UNCHANGED gameOver
        ELSE /\ snake' = moved
             /\ UNCHANGED <<food, score, appleCount, speedMs, highScore, gameOver>>

\* Game::update on the snake sn that handleInput left
update(sn) ==
    LET moved == move(sn)
        head  == getHead(moved)
        cells == spawn(board.width, board.height, moved.body)
    IN  IF ~isInsideBoundaries(board, head) \/ checkSelfCollision(moved)
        THEN /\ snake' = moved
             /\ gameOver' = TRUE
             /\ UNCHANGED <<food, score, appleCount, speedMs, highScore>>
        ELSE IF head = food
        THEN /\ snake' = grow(moved)
             /\ countApple
             /\ IF cells = {} THEN UNCHANGED food ELSE food' \in cells
             /\ UNCHANGED gameOver
        ELSE /\ snake' = moved
             /\ UNCHANGED <<food, score, appleCount, speedMs, highScore, gameOver>>

\* Game::update on sn calls Food::spawn with no cell that its loop can accept:
\* the call does not return
spawnHangs(sn) ==
    LET moved == move(sn)
        head  == getHead(moved)
    IN  /\ isInsideBoundaries(board, head) /\ ~checkSelfCollision(moved)
        /\ head = food
        /\ ~spawnReturns(board.width, board.height, moved.body)

\* the rest of a Running tick after handleInput: update(), render(), sleep
FinishTick(sn) ==
    /\ update(sn)
    /\ IF score' # score /\ ~spawnReturns(board.width, board.height, snake'.body)
                                            \* that is, spawnHangs(sn)
       THEN pc' = "spawn" /\ UNCHANGED board
       ELSE pc' = "run" /\ board' = Rendered(board, food', snake')
    /\ UNCHANGED <<rand, previousScore, scoresFile, nc>>

\* Game::run: the render before the loop
RunStart ==
    /\ pc = "start"
    /\ board' = Rendered(board, food, snake)
    /\ pc' = "run"
    /\ UNCHANGED <<rand, snake, food, score, highScore, previousScore, gameOver,
                   running, paused, speedMs, appleCount, scoresFile, nc>>

\* Game::run: one iteration of the loop in its Running branch; when the key
\* is P, togglePause enters showPauseScreen and the iteration waits there
RunTick(bytes) ==
    /\ pc = "run" /\ running /\ ~gameOver /\ ~paused
    /\ LET r == handleInput(snake, running, bytes)
       IN  IF r.pause
           THEN /\ paused' = ~paused
                /\ pc' = "pause"
                /\ UNCHANGED <<board, rand, snake, food, score, highScore, previousScore,
                               gameOver, running, speedMs, appleCount, scoresFile, nc>>
           ELSE /\ running' = r.running
                /\ FinishTick(r.snake)
                /\ UNCHANGED paused

\* mutant: every key but Q ends the pause
PauseKey_AnyKeyResumes(k) ==
    /\ pc = "pause" /\ paused /\ running
    /\ LET u == toupper(k)
       IN  IF u = CH_Q
           THEN /\ running' = FALSE
                /\ FinishTick(snake)
                /\ UNCHANGED paused
           ELSE /\ paused' = FALSE
                /\ FinishTick(snake)
                /\ UNCHANGED running

\* Game::showPauseScreen: one key read by the waiting loop; P and Q return
\* through togglePause and handleInput into run, which finishes the iteration
PauseKey(k) ==
    /\ pc = "pause" /\ paused /\ running
    /\ LET u == toupper(k)
       IN  IF u = CH_P
           THEN /\ paused' = FALSE
                /\ FinishTick(snake)
                /\ UNCHANGED running
           ELSE IF u = CH_Q
           THEN /\ running' = FALSE
                /\ FinishTick(snake)
                /\ UNCHANGED paused
           ELSE UNCHANGED <<gvars, nc>>

\* Game::showGameOver up to its waiting loop
showGameOver ==
    /\ pc = "run" /\ running /\ gameOver
    /\ previousScore' = score
    /\ highScore' = IF score > highScore THEN score ELSE highScore
    /\ scoresFile' = [previousScore |-> previousScore', highScore |-> highScore']
    /\ pc' = "over"
    /\ UNCHANGED <<board, rand, snake, food, score, gameOver, running, paused, speedMs,
                   appleCount, nc>>

\* mutant: restart() without the reset of the score
restart_KeepsScore ==
    LET sn == NewSnake(CDiv(board.width, 2), CDiv(board.height, 2))
    IN  /\ UNCHANGED score
        /\ gameOver' = FALSE
        /\ paused' = FALSE
        /\ speedMs' = InitialSpeedMs
        /\ appleCount' = 0
        /\ snake' = sn
        /\ food' \in spawn(board.width, board.height, sn.body)

\* mutant: restart() without the reset of the tick interval
restart_KeepsInterval ==
    LET sn == NewSnake(CDiv(board.width, 2), CDiv(board.height, 2))
    IN  /\ score' = 0
        /\ gameOver' = FALSE
        /\ paused' = FALSE
        /\ UNCHANGED speedMs
        /\ appleCount' = 0
        /\ snake' = sn
        /\ food' \in spawn(board.width, board.height, sn.body)

\* Game::restart
restart ==
    LET sn == NewSnake(CDiv(board.width, 2), CDiv(board.height, 2))
    IN  /\ score' = 0
        /\ gameOver' = FALSE
        /\ paused' = FALSE
        /\ speedMs' = InitialSpeedMs
        /\ appleCount' = 0
        /\ snake' = sn
        /\ food' \in spawn(board.width, board.height, sn.body)

\* mutant: the waiting loop restarts on every key but Q
GameOverKey_AnyKeyRestarts(k) ==
    /\ pc = "over"
    /\ IF toupper(k) = CH_Q
       THEN /\ running' = FALSE
            /\ pc' = "run"
            /\ UNCHANGED <<board, rand, snake, food, score, highScore, previousScore,
                           gameOver, paused, speedMs, appleCount, scoresFile, nc>>
       ELSE /\ restart
            /\ pc' = "run"
            /\ UNCHANGED <<board, rand, highScore, previousScore, running, scoresFile, nc>>

\* Game::showGameOver: one key read by the waiting loop
GameOverKey(k) ==
    /\ pc = "over"
    /\ LET u == toupper(k)
       IN  IF u = CH_R
           THEN /\ restart
                /\ pc' = "run"
                /\ UNCHANGED <<board, rand, highScore, previousScore, running, scoresFile, nc>>
           ELSE IF u = CH_Q
           THEN /\ running' = FALSE
                /\ pc' = "run"
                /\ UNCHANGED <<board, rand, snake, food, score, highScore, previousScore,
                               gameOver, paused, speedMs, appleCount, scoresFile, nc>>
           ELSE UNCHANGED <<gvars, nc>>

\* Game::run: the loop test fails and run returns to main
ExitLoop ==
    /\ pc = "run" /\ ~running
    /\ pc' = "done"
    /\ UNCHANGED <<board, rand, snake, food, score, highScore, previousScore, gameOver,
                   running, paused, speedMs, appleCount, scoresFile, nc>>

Next ==
    \/ RunStart /\ UNCHANGED env
    \/ \E bytes \in PollInputs : RunTick(bytes) /\ score' <= MaxScore /\ UNCHANGED env
    \/ \E k \in LoopKeys : PauseKey(k) /\ score' <= MaxScore /\ UNCHANGED env
    \/ showGameOver /\ UNCHANGED env
    \/ \E k \in LoopKeys : GameOverKey(k) /\ UNCHANGED env
    \/ ExitLoop /\ UNCHANGED env

Spec == Init /\ [][Next]_vars

(***************************************************************************)
(* class Terminal and main: the whole process of game.cpp, with the        *)
(* terminal it runs in and the bytes of its standard input.                *)
(*                                                                         *)
(* A terminal is [build, lflag, vmin, vtime, console, cursor]: the termios *)
(* fields the POSIX build changes, the console mode flags the _WIN32 build *)
(* changes, and whether the cursor is shown.                               *)
(***************************************************************************)
\* the terminals the process is started in
Terminals ==
    { [build |-> "posix", lflag |-> {"ICANON", "ECHO", "ISIG"}, vmin |-> 1, vtime |-> 0,
       console |-> {}, cursor |-> TRUE],
      [build |-> "win32", lflag |-> {}, vmin |-> 0, vtime |-> 0,
       console |-> {"ENABLE_PROCESSED_OUTPUT"}, cursor |-> TRUE] }

\* Terminal::Terminal: the terminal it leaves and what the object has saved
Terminal(t) ==
    IF t.build = "win32"
    THEN [ tty      |-> [t EXCEPT !.console = @ \cup {"ENABLE_VIRTUAL_TERMINAL_PROCESSING"}],
           original |-> [cursor |-> t.cursor] ]
    ELSE [ tty      |-> [t EXCEPT !.lflag = @ \ {"ICANON", "ECHO"}, !.vmin = 0, !.vtime = 0],
           original |-> [lflag |-> t.lflag, vmin |-> t.vmin, vtime |-> t.vtime] ]

hideCursor(t) == [t EXCEPT !.cursor = FALSE]

showCursor(t) == [t EXCEPT !.cursor = TRUE]

\* Terminal::~Terminal of the object that saved original
Terminal_dtor(t, original) ==
    IF t.build = "win32"
    THEN [t EXCEPT !.cursor = original.cursor]
    ELSE showCursor([t EXCEPT !.lflag = original.lflag, !.vmin = original.vmin,
                              !.vtime = original.vtime])

\* what of a terminal the claims call its mode
TerminalMode(t) == [lflag |-> t.lflag, vmin |-> t.vmin, vtime |-> t.vtime,
                    console |-> t.console]

\* the number of bytes Game::handleInput takes from stdin when bytes are there
handleInputReads(bytes) ==
    IF Len(bytes) = 0 THEN 0
    ELSE IF bytes[1] = KEY_ESC /\ Len(bytes) >= 2
    THEN IF bytes[2] = CH_LBRACKET /\ Len(bytes) >= 3 THEN 3 ELSE 2
    ELSE 1

Drop(bytes, n) == SubSeq(bytes, n + 1, Len(bytes))

\* the keys of the keyboard, each with the bytes it sends
TypedKeys ==
    { <<Lower(CH_W)>>, <<Lower(CH_S)>>, <<Lower(CH_A)>>, <<Lower(CH_Q)>>, <<Lower(CH_P)>>,
      <<Lower(CH_R)>>, <<KEY_ESC>>, <<KEY_ESC, CH_LBRACKET, CH_A>> }

\* what the player types during the game: up to MaxTyped keys
Scripts == UNION { [1..n -> TypedKeys] : n \in 0..MaxTyped }

\* main up to game.run(): its Terminal, hideCursor, the key that starts the
\* game, and Game::Game with its own Terminal and hideCursor
InitMain ==
    /\ GameConstructed
    /\ \E t0 \in Terminals :
          LET mainTerm == Terminal(t0)
              gameTerm == Terminal(hideCursor(mainTerm.tty))
          IN  term = [ tty      |-> hideCursor(gameTerm.tty),
                       before   |-> t0,
                       mainTerm |-> mainTerm.original,
                       gameTerm |-> gameTerm.original ]
    /\ \E script \in Scripts : stdin = [buf |-> <<>>, ahead |-> script]

\* the player types the next key: its bytes arrive in stdin
Type ==
    /\ pc # "exited"
    /\ Len(stdin.ahead) > 0
    /\ stdin' = [buf |-> stdin.buf \o Head(stdin.ahead), ahead |-> Tail(stdin.ahead)]
    /\ UNCHANGED <<gvars, nc, term>>

\* Game::run: one iteration in its Running branch on the bytes stdin holds
MainRunTick ==
    /\ RunTick(stdin.buf)
    /\ stdin' = [stdin EXCEPT !.buf = Drop(stdin.buf, handleInputReads(stdin.buf))]
    /\ UNCHANGED term

\* Game::showPauseScreen: kbhit() is true and the loop takes one byte
MainPauseKey ==
    /\ Len(stdin.buf) > 0
    /\ PauseKey(Head(stdin.buf))
    /\ stdin' = [stdin EXCEPT !.buf = Tail(stdin.buf)]
    /\ UNCHANGED term

\* Game::showGameOver: kbhit() is true and the waiting loop takes one byte
MainGameOverKey ==
    /\ Len(stdin.buf) > 0
    /\ GameOverKey(Head(stdin.buf))
    /\ stdin' = [stdin EXCEPT !.buf = Tail(stdin.buf)]
    /\ UNCHANGED term

\* Terminal::~Terminal on the input that was typed and not read: the POSIX
\* build restores the mode with tcsetattr(TCSAFLUSH), which discards it; the
\* _WIN32 build leaves the console input as it is
Terminal_dtor_input(t, in) ==
    IF t.build = "win32" THEN in ELSE [in EXCEPT !.buf = <<>>]

\* main after game.run(): showCursor, then the destructors of game (its body
\* with showCursor, then its Terminal) and of main's Terminal
MainExit ==
    /\ pc = "done"
    /\ LET shown == showCursor(showCursor(term.tty))
           t1    == Terminal_dtor(shown, term.gameTerm)
           t2    == Terminal_dtor(t1, term.mainTerm)
       IN  /\ term' = [term EXCEPT !.tty = t2]
           /\ stdin' = Terminal_dtor_input(t1, Terminal_dtor_input(shown, stdin))
    /\ pc' = "exited"
    /\ UNCHANGED <<board, rand, snake, food, score, highScore, previousScore, gameOver,
                   running, paused, speedMs, appleCount, scoresFile, nc>>

NextMain ==
    \/ Type
    \/ RunStart /\ UNCHANGED env
    \/ MainRunTick /\ score' <= MaxScore
    \/ MainPauseKey /\ score' <= MaxScore
    \/ showGameOver /\ UNCHANGED env
    \/ MainGameOverKey
    \/ ExitLoop /\ UNCHANGED env
    \/ MainExit

SpecMain == InitMain /\ [][NextMain]_vars

(***************************************************************************)
(* game.cpp under a player who never collides: rand() reaches every        *)
(* interior cell, and the player steers the head along a closed route that *)
(* visits every interior cell once (rows to the right and to the left in   *)
(* turn, back up through the first column).                                *)
(***************************************************************************)
\* the cell after p on the route; the interior is 1..m in both directions
CycleNext(p) ==
    LET m == board.width - 2
        x == p[1]
        y == p[2]
    IN  IF x = 1 THEN (IF y > 1 THEN <<1, y - 1>> ELSE <<2, 1>>)
        ELSE IF y % 2 = 1
        THEN (IF x < m THEN <<x + 1, y>> ELSE <<m, y + 1>>)
        ELSE IF y = m THEN <<x - 1, y>>
        ELSE (IF x > 2 THEN <<x - 1, y>> ELSE <<2, y + 1>>)

InitFill == NewGame(FullRand, FALSE) /\ stdin = Off /\ term = Off

\* a Running tick whose key keeps the head on the route
FillTick ==
    \E bytes \in PollInputs :
        /\ RunTick(bytes)
        /\ getHead(snake') = CycleNext(getHead(snake))

NextFill ==
    \/ RunStart /\ UNCHANGED env
    \/ FillTick /\ UNCHANGED env

SpecFill == InitFill /\ [][NextFill]_vars

(***************************************************************************)
(* game.cpp over sessions long enough to lower the tick interval: the      *)
(* player keeps the head on the route above while eating, then leaves it   *)
(* at a tick of their choice and collides; the game-over screen restarts   *)
(* or quits.                                                               *)
(***************************************************************************)
InitSessions == NewGame(RandVals, FALSE) /\ stdin = Off /\ term = Off

\* a Running tick whose key takes the head into a wall or into the body
CrashTick ==
    \E bytes \in PollInputs : RunTick(bytes) /\ gameOver'

NextSessions ==
    \/ RunStart /\ UNCHANGED env
    \/ FillTick /\ score' <= SessionMaxScore /\ UNCHANGED env
    \/ CrashTick /\ UNCHANGED env
    \/ showGameOver /\ UNCHANGED env
    \/ \E k \in LoopKeys : GameOverKey(k) /\ UNCHANGED env
    \/ ExitLoop /\ UNCHANGED env

SpecSessions == InitSessions /\ [][NextSessions]_vars

(***************************************************************************)
(* game.cpp with the grid buffer of its board followed: every render()     *)
(* rebuilds board.grid.  The player steers, lets the game end and          *)
(* restarts; render() may be called once more in any state.                *)
(***************************************************************************)
RenderInputs == { <<>>, <<Lower(CH_W)>>, <<Lower(CH_S)>>, <<Lower(CH_A)>>, <<CH_P>> }

RenderLoopKeys == { CH_P, Lower(CH_R), Lower(CH_W) }

InitRender == NewGame(RandVals, TRUE) /\ stdin = Off /\ term = Off

\* a call of Game::render
RenderCall ==
    /\ pc \in {"run", "pause", "over"}
    /\ board' = Rendered(board, food, snake)
    /\ UNCHANGED <<rand, snake, food, score, highScore, previousScore, gameOver,
                   running, paused, speedMs, appleCount, scoresFile, pc, nc>>

NextRender ==
    \/ RunStart /\ UNCHANGED env
    \/ \E bytes \in RenderInputs : RunTick(bytes) /\ score' <= RenderMaxScore /\ UNCHANGED env
    \/ \E k \in RenderLoopKeys : PauseKey(k) /\ score' <= RenderMaxScore /\ UNCHANGED env
    \/ showGameOver /\ UNCHANGED env
    \/ \E k \in RenderLoopKeys : GameOverKey(k) /\ UNCHANGED env
    \/ RenderCall /\ UNCHANGED env

SpecRender == InitRender /\ [][NextRender]_vars

(***************************************************************************)
(* game.cpp with a player who never touches a key while the game runs and  *)
(* restarts it with R when it is over.  rand() returns every value.  The   *)
(* loop of run() goes on by itself: its iterations are taken as long as    *)
(* they can be.                                                            *)
(***************************************************************************)
InitIdle == NewGame(FullRand, FALSE) /\ stdin = Off /\ term = Off

\* an iteration of run() in Running with no byte in stdin
IdleTick == RunTick(<<>>) /\ UNCHANGED env

IdleStart == RunStart /\ UNCHANGED env

NextIdle ==
    \/ IdleStart
    \/ IdleTick
    \/ showGameOver /\ UNCHANGED env
    \/ \E k \in {CH_R, Lower(CH_R)} : GameOverKey(k) /\ UNCHANGED env

SpecIdle ==
    /\ InitIdle /\ [][NextIdle]_vars
    /\ WF_vars(IdleStart) /\ WF_vars(IdleTick)

(***************************************************************************)
(* game.cpp started in terminals that give boards of more than one size:   *)
(* the smallest board and the next larger one, whose side is odd.          *)
(***************************************************************************)
\* terminal sizes (columns, rows) that make main choose MinGameSize and
\* MinGameSize + 1
WideConsoleSizes == { <<80, MinGameSize + 6>>, <<80, MinGameSize + 7>> }

InitWide == NewGameOn(WideConsoleSizes, RandVals, FALSE) /\ stdin = Off /\ term = Off

SpecWide == InitWide /\ [][Next]_vars

(***************************************************************************)
(* The class Snake of game.cpp taken alone: an object constructed by       *)
(* Snake(startX, startY) and any sequence of calls of its public methods   *)
(* setDirection (with any value of the enum Direction), move and grow.     *)
(* pc is "snake".  The head is kept in the square 0..SnakeBox and the body *)
(* within SnakeMaxLen cells.                                               *)
(***************************************************************************)
InitSnake ==
    /\ snake = NewSnake(SnakeBox \div 2, SnakeBox \div 2)
    /\ pc = "snake"
    /\ board = Off /\ rand = Off /\ food = Off /\ score = Off
    /\ highScore = Off /\ previousScore = Off /\ gameOver = Off
    /\ running = Off /\ paused = Off /\ speedMs = Off /\ appleCount = Off
    /\ scoresFile = Off
    /\ nc = [pc |-> Off]
    /\ stdin = Off /\ term = Off

SnakeUnchanged ==
    UNCHANGED <<board, rand, food, score, highScore, previousScore, gameOver,
                running, paused, speedMs, appleCount, scoresFile, pc, nc>>

Snake_setDirection(d) ==
    /\ pc = "snake"
    /\ snake' = setDirection(snake, d)
    /\ SnakeUnchanged

Snake_move ==
    /\ pc = "snake"
    /\ snake' = move(snake)
    /\ getHead(snake')[1] \in 0..SnakeBox /\ getHead(snake')[2] \in 0..SnakeBox
    /\ SnakeUnchanged

Snake_grow ==
    /\ pc = "snake"
    /\ Len(snake.body) < SnakeMaxLen
    /\ snake' = grow(snake)
    /\ SnakeUnchanged

NextSnake ==
    \/ \E d \in Direction : Snake_setDirection(d) /\ UNCHANGED env
    \/ Snake_move /\ UNCHANGED env
    \/ Snake_grow /\ UNCHANGED env

SpecSnake == InitSnake /\ [][NextSnake]_vars

(***************************************************************************)
(* The draft src/code/snake_draft2.cpp.  Its classes Position, Food, Snake *)
(* and GameBoard (without render) are the text of game.cpp, and so are the *)
(* operators above; its Game has no pause, no apple counter and no score   *)
(* file.  It runs in the variables of game.cpp, pc being "d2run", "d2over" *)
(* or "d2done".                                                            *)
(***************************************************************************)
\* Game::handleInput of the draft
D2_handleInput(sn, run, bytes) ==
    LET same == [snake |-> sn, running |-> run]
        dir(d) == [same EXCEPT !.snake = setDirection(sn, d)]
    IN  IF Len(bytes) = 0 THEN same
        ELSE LET k == bytes[1] IN
             IF k = KEY_NUL THEN same
             ELSE IF k = KEY_ESC
             THEN IF Len(bytes) >= 2
                  THEN LET b1 == bytes[2] IN
                       IF b1 = CH_LBRACKET /\ Len(bytes) >= 3
                       THEN LET b2 == bytes[3] IN
                            IF b2 = CH_A THEN dir("UP")
                            ELSE IF b2 = CH_B THEN dir("DOWN")
                            ELSE IF b2 = CH_C THEN dir("RIGHT")
                            ELSE IF b2 = CH_D THEN dir("LEFT")
                            ELSE same
                       ELSE same
                  ELSE same
             ELSE LET u == toupper(k) IN
                  IF u = CH_W THEN dir("UP")
                  ELSE IF u = CH_S THEN dir("DOWN")
                  ELSE IF u = CH_A THEN dir("LEFT")
                  ELSE IF u = CH_D THEN dir("RIGHT")
                  ELSE IF u = CH_Q THEN [same EXCEPT !.running = FALSE]
                  ELSE same

\* Game::Game of the draft
InitD2 ==
    \E sz \in ConsoleSizes :
        LET n  == gameSize(sz[1], sz[2])
            sn == NewSnake(CDiv(n, 2), CDiv(n, 2))
        IN  /\ board = NewBoard(n, n)
            /\ rand = RandVals
            /\ snake = sn
            /\ food \in spawn(n, n, sn.body)
            /\ score = 0
            /\ highScore = 0
            /\ previousScore = 0
            /\ gameOver = FALSE
            /\ running = TRUE
            /\ speedMs = D2InitialSpeedMs
            /\ paused = FALSE
            /\ appleCount = 0
            /\ scoresFile = Off
            /\ pc = "d2run"
            /\ nc = [pc |-> Off]
            /\ stdin = Off /\ term = Off

\* Game::update of the draft on the snake sn that handleInput left
D2_update(sn) ==
    LET moved == move(sn)
        head  == getHead(moved)
    IN  IF ~isInsideBoundaries(board, head)
        THEN /\ snake' = moved
             /\ gameOver' = TRUE
             /\ UNCHANGED <<food, score, speedMs, highScore>>
        ELSE IF checkSelfCollision(moved)
        THEN /\ snake' = moved
             /\ gameOver' = TRUE
             /\ UNCHANGED <<food, score, speedMs, highScore>>
        ELSE IF head = food
        THEN /\ snake' = grow(moved)
             /\ score' = score + 1
             /\ highScore' = IF score + 1 > highScore THEN score + 1 ELSE highScore
             /\ food' \in spawn(board.width, board.height, moved.body)
             /\ speedMs' = IF speedMs > D2MinSpeedMs THEN speedMs - D2SpeedStep ELSE speedMs
             /\ UNCHANGED gameOver
        ELSE /\ snake' = moved
             /\ UNCHANGED <<food, score, speedMs, highScore, gameOver>>

\* Game::run of the draft: one iteration of the loop while the game is not over
D2_RunTick(bytes) ==
    /\ pc = "d2run" /\ running /\ ~gameOver
    /\ LET r == D2_handleInput(snake, running, bytes)
       IN  /\ running' = r.running
           /\ D2_update(r.snake)
    /\ score' <= D2MaxScore
    /\ UNCHANGED <<board, rand, previousScore, paused, appleCount, scoresFile, pc, nc>>

\* Game::showGameOver of the draft up to its waiting loop
D2_showGameOver ==
    /\ pc = "d2run" /\ running /\ gameOver
    /\ previousScore' = score
    /\ pc' = "d2over"
    /\ UNCHANGED <<board, rand, snake, food, score, highScore, gameOver, running, paused,
                   speedMs, appleCount, scoresFile, nc>>

\* Game::restart of the draft
D2_restart ==
    LET sn == NewSnake(CDiv(board.width, 2), CDiv(board.height, 2))
    IN  /\ score' = 0
        /\ gameOver' = FALSE
        /\ speedMs' = D2InitialSpeedMs
        /\ snake' = sn
        /\ food' \in spawn(board.width, board.height, sn.body)

\* Game::showGameOver of the draft: one pass of the waiting loop that finds
\* bytes in stdin; after ESC up to two more bytes are drained
D2_GameOverKey(bytes) ==
    /\ pc = "d2over" /\ Len(bytes) > 0
    /\ LET k == bytes[1]
           u == toupper(k)
       IN  IF k = KEY_NUL \/ k = KEY_ESC
           THEN UNCHANGED <<gvars, nc>>
           ELSE IF u = CH_R
           THEN /\ D2_restart
                /\ pc' = "d2run"
                /\ UNCHANGED <<board, rand, highScore, previousScore, running, paused,
                               appleCount, scoresFile, nc>>
           ELSE IF u = CH_Q
           THEN /\ running' = FALSE
                /\ pc' = "d2run"
                /\ UNCHANGED <<board, rand, snake, food, score, highScore, previousScore,
                               gameOver, paused, speedMs, appleCount, scoresFile, nc>>
           ELSE UNCHANGED <<gvars, nc>>

\* Game::run of the draft: the loop test fails and run returns to main
D2_ExitLoop ==
    /\ pc = "d2run" /\ ~running
    /\ pc' = "d2done"
    /\ UNCHANGED <<board, rand, snake, food, score, highScore, previousScore, gameOver,
                   running, paused, speedMs, appleCount, scoresFile, nc>>

NextD2 ==
    \/ \E bytes \in PollInputs : D2_RunTick(bytes) /\ UNCHANGED env
    \/ D2_showGameOver /\ UNCHANGED env
    \/ \E bytes \in PollInputs \cup {<<Lower(CH_R)>>, <<CH_R>>} :
           D2_GameOverKey(bytes) /\ UNCHANGED env
    \/ D2_ExitLoop /\ UNCHANGED env

SpecD2 == InitD2 /\ [][NextD2]_vars

\* either program is started: game.cpp or the draft
SpecBoth == (Init \/ InitD2) /\ [][Next \/ NextD2]_vars

(***************************************************************************)
(* The ncurses draft, src/unnamed/part_000.  nc is its Game object:        *)
(* [W, H, snake: [body, dx, dy], food, score, gameOver, waiting, pc], pc   *)
(* being "loop" at the top of the loop of run(), "over" in the blocking    *)
(* getch() of its game-over screen and "done" after it.                    *)
(***************************************************************************)
Nc_Snake(x, y) ==
    [ body |-> << <<x, y>>, <<x - 1, y>>, <<x - 2, y>> >>, dx |-> 1, dy |-> 0 ]

Nc_setDir(sn, key) ==
    IF key = KEY_UP \/ key = Lower(CH_W)
    THEN IF sn.dy = 0 THEN [sn EXCEPT !.dx = 0, !.dy = -1] ELSE sn
    ELSE IF key = KEY_DOWN \/ key = Lower(CH_S)
    THEN IF sn.dy = 0 THEN [sn EXCEPT !.dx = 0, !.dy = 1] ELSE sn
    ELSE IF key = KEY_LEFT \/ key = Lower(CH_A)
    THEN IF sn.dx = 0 THEN [sn EXCEPT !.dx = -1, !.dy = 0] ELSE sn
    ELSE IF key = KEY_RIGHT \/ key = Lower(CH_D)
    THEN IF sn.dx = 0 THEN [sn EXCEPT !.dx = 1, !.dy = 0] ELSE sn
    ELSE sn

Nc_move(sn, growArg) ==
    LET head   == <<sn.body[1][1] + sn.dx, sn.body[1][2] + sn.dy>>
        pushed == <<head>> \o sn.body
    IN  [sn EXCEPT !.body = IF growArg THEN pushed
                            ELSE SubSeq(pushed, 1, Len(pushed) - 1)]

Nc_collided(sn, W, H) ==
    LET head == sn.body[1]
    IN  \/ head[1] < 0 \/ head[1] >= W \/ head[2] < 0 \/ head[2] >= H
        \/ \E i \in 2..Len(sn.body) : sn.body[i] = head

\* Food::spawn of the draft: the positions its loop can return with
Nc_spawn(W, H, body) ==
    { p \in { <<r1 % W, r2 % H>> : r1 \in RandVals, r2 \in RandVals } :
        ~InBody(p, body) }

\* Game::Game
Nc_Game(w, h) ==
    { [ W |-> w, H |-> h, snake |-> Nc_Snake(CDiv(w, 4), CDiv(h, 2)), food |-> f,
        score |-> 0, gameOver |-> FALSE, waiting |-> TRUE, pc |-> "loop" ] :
      f \in Nc_spawn(w, h, Nc_Snake(CDiv(w, 4), CDiv(h, 2)).body) }

\* Game::update: the objects it can leave
Nc_update(g) ==
    LET m1   == Nc_move(g.snake, FALSE)
        m2   == Nc_move(m1, TRUE)
        hit(sn) == g.gameOver \/ Nc_collided(sn, g.W, g.H)
    IN  IF m1.body[1] = g.food
        THEN { [g EXCEPT !.snake = m2, !.score = g.score + 1, !.food = f,
                         !.gameOver = hit(m2)] :
               f \in Nc_spawn(g.W, g.H, m2.body) }
        ELSE { [g EXCEPT !.snake = m1, !.gameOver = hit(m1)] }

\* the keys getch() returns in the draft; ERR when none arrived in time
NcKeys ==
    { ERR, Lower(CH_W), Lower(CH_S), Lower(CH_A), Lower(CH_D),
      KEY_UP, KEY_DOWN, KEY_LEFT, KEY_RIGHT,
      CH_W, Lower(CH_X), Lower(CH_Q), CH_Q, KEY_ESC, Lower(CH_R), CH_R }

\* the keys tried once the game is over
NcOverKeys == { ERR, Lower(CH_X), Lower(CH_Q), CH_Q, KEY_ESC, Lower(CH_R), CH_R }

InitNc ==
    /\ nc \in Nc_Game(NcW, NcH)
    /\ board = Off /\ rand = Off /\ snake = Off /\ food = Off /\ score = Off
    /\ highScore = Off /\ previousScore = Off /\ gameOver = Off
    /\ running = Off /\ paused = Off /\ speedMs = Off /\ appleCount = Off
    /\ scoresFile = Off /\ pc = Off
    /\ stdin = Off /\ term = Off

\* Game::run: one iteration of the loop while the game is not over
NcTick(key) ==
    /\ nc.pc = "loop" /\ ~nc.gameOver
    /\ IF key = Lower(CH_Q) \/ key = KEY_ESC
       THEN nc' = [nc EXCEPT !.pc = "done"]
       ELSE IF nc.waiting
       THEN IF key # ERR
            THEN nc' = [nc EXCEPT !.snake = Nc_setDir(nc.snake, key), !.waiting = FALSE]
            ELSE nc' = nc
       ELSE /\ nc' \in Nc_update([nc EXCEPT !.snake = Nc_setDir(nc.snake, key)])
            /\ nc'.score <= NcMaxScore
    /\ UNCHANGED gvars

\* Game::run: the top of an iteration of the loop once the game is over; key
\* is what the timed getch() returns.  Unless it ends the loop, the game-over
\* screen is drawn and the iteration waits in the blocking getch()
NcGameOverTick(key) ==
    /\ nc.pc = "loop" /\ nc.gameOver
    /\ IF key = Lower(CH_Q) \/ key = KEY_ESC
       THEN nc' = [nc EXCEPT !.pc = "done"]
       ELSE nc' = [nc EXCEPT !.pc = "over"]
    /\ UNCHANGED gvars

\* Game::run: the blocking getch() of the game-over screen returns key; R runs
\* a fresh Game in restart(), Q and ESC return, any other key goes back to the
\* top of the loop
NcGameOverKey(key) ==
    /\ nc.pc = "over"
    /\ IF key = Lower(CH_R) \/ key = CH_R
       THEN nc' \in Nc_Game(nc.W, nc.H)
       ELSE IF key = Lower(CH_Q) \/ key = CH_Q \/ key = KEY_ESC
       THEN nc' = [nc EXCEPT !.pc = "done"]
       ELSE nc' = [nc EXCEPT !.pc = "loop"]
    /\ UNCHANGED gvars

NextNc ==
    \/ \E key \in NcKeys : NcTick(key) /\ UNCHANGED env
    \/ \E key \in NcOverKeys : NcGameOverTick(key) /\ UNCHANGED env
    \/ \E key \in NcOverKeys \ {ERR} : NcGameOverKey(key) /\ UNCHANGED env

SpecNc == InitNc /\ [][NextNc]_vars

\* any of the three programs
SpecAll == (Init \/ InitD2 \/ InitNc) /\ [][Next \/ NextD2 \/ NextNc]_vars

(***************************************************************************)
(* Vocabulary of the properties of game.cpp.                               *)
(***************************************************************************)
\* a step in which update() ran: a Running iteration that did not stop in the
\* pause screen, or the resumption of one from the pause screen; its move()
\* has changed the snake (a step in which only a key arrives, or only the
\* grid is rebuilt, is none).  The tick whose update() calls a Food::spawn
\* that does not return is one too: it has moved, grown and counted before
\* the call
Ticked ==
    /\ pc \in {"run", "pause"} /\ running /\ ~gameOver /\ pc' \in {"run", "spawn"}
    /\ snake' # snake

\* a step in which restart() ran
Restarted == pc = "over" /\ pc' = "run" /\ running'

\* a step in which update() called Food::spawn
Ate == Ticked /\ score' = score + 1

OppositeOf(h) ==
    CASE h = "UP"    -> "DOWN"
      [] h = "DOWN"  -> "UP"
      [] h = "LEFT"  -> "RIGHT"
      [] h = "RIGHT" -> "LEFT"
      [] OTHER       -> "NONE"

\* the documented bindings: W/A/S/D in either case, and the arrow keys
KeysFor(d) ==
    CASE d = "UP"    -> { <<CH_W>>, <<Lower(CH_W)>>, <<KEY_ESC, CH_LBRACKET, CH_A>> }
      [] d = "DOWN"  -> { <<CH_S>>, <<Lower(CH_S)>>, <<KEY_ESC, CH_LBRACKET, CH_B>> }
      [] d = "RIGHT" -> { <<CH_D>>, <<Lower(CH_D)>>, <<KEY_ESC, CH_LBRACKET, CH_C>> }
      [] d = "LEFT"  -> { <<CH_A>>, <<Lower(CH_A)>>, <<KEY_ESC, CH_LBRACKET, CH_D>> }
      [] OTHER       -> {}

DirectionKeys == UNION { KeysFor(d) : d \in {"UP", "DOWN", "LEFT", "RIGHT"} }

StrictlyInside(p) ==
    /\ 1 <= p[1] /\ p[1] <= board.width - 2
    /\ 1 <= p[2] /\ p[2] <= board.height - 2

NoDuplicates(body) ==
    \A i, j \in 1..Len(body) : i # j => body[i] # body[j]

HeadOnBody(body) == \E i \in 2..Len(body) : body[i] = body[1]

FoodOffSnake == \A i \in 1..Len(snake.body) : snake.body[i] # food

(***************************************************************************)
(* C1.  On every Running tick, of game.cpp and of snake_draft2.cpp, whose   *)
(* key is bound to the direction opposite to the snake's heading h, the    *)
(* request is dropped: after the tick's move() the heading is h and the    *)
(* head is one cell further along h.                                       *)
(***************************************************************************)
C1_ReversalDropped ==
    [][ \A bytes \in KeysFor(OppositeOf(snake.current)) :
            (RunTick(bytes) \/ D2_RunTick(bytes)) =>
                /\ snake'.current = snake.current
                /\ getHead(snake') = Step(getHead(snake), snake.current) ]_vars

\* a snake that has turned upward, where a tick reading 's' keeps it upward
C1_Witness ==
    /\ pc = "run" /\ running /\ ~gameOver
    /\ snake.current = "UP"
    /\ ENABLED (RunTick(<<Lower(CH_S)>>) /\ snake'.current = "UP")

(***************************************************************************)
(* C2.  Whenever Food::spawn has returned (in the constructor, after food  *)
(* is eaten in update(), in restart()), the food lies strictly inside the  *)
(* border ring and on no cell of the snake body of that instant.           *)
(***************************************************************************)
C2_SpawnValid ==
    /\ (pc = "start" => StrictlyInside(food) /\ FoodOffSnake)
    /\ [][ ((Ate /\ pc' = "run") \/ Restarted) =>
                (StrictlyInside(food) /\ FoodOffSnake)' ]_vars

\* food has been eaten and respawned in the running session
C2_Witness ==
    /\ pc = "run" /\ score = 1 /\ snake.growing
    /\ StrictlyInside(food) /\ FoodOffSnake

(***************************************************************************)
(* C3.  A body with two equal positions exists only with gameOver set: an  *)
(* update() that leaves gameOver false leaves no duplicate, and a move     *)
(* that puts the head on another body cell sets gameOver in that update(). *)
(***************************************************************************)
C3_SelfCollisionSameTick ==
    /\ ~gameOver => NoDuplicates(snake.body)
    /\ HeadOnBody(snake.body) => gameOver

\* the head has run into the body and the game is over
C3_Witness ==
    /\ gameOver /\ HeadOnBody(snake.body) /\ StrictlyInside(getHead(snake))

(***************************************************************************)
(* C4.  A move that puts the head on a cell outside the interior sets      *)
(* gameOver in that tick's update(); on entry to the game-over state       *)
(* previousScore becomes the score and highScore the larger of its old     *)
(* value and the score.                                                    *)
(***************************************************************************)
C4_WallCollision ==
    /\ [](~StrictlyInside(getHead(snake)) => gameOver)
    /\ [][ (pc = "run" /\ pc' = "over") =>
               /\ ~StrictlyInside(getHead(snake)) \/ HeadOnBody(snake.body)
               /\ previousScore' = score
               /\ score' = score
               /\ highScore' = Max(highScore, score) ]_vars

\* game over at the left border with a score that raised the high score
C4_Witness ==
    /\ pc = "over" /\ getHead(snake)[1] = 0
    /\ score = 1 /\ previousScore = 1 /\ highScore = 1

(***************************************************************************)
(* C5.  Over one move() the body keeps its length when the growth flag is  *)
(* clear and gains exactly one cell when it is set, and the move clears    *)
(* the flag: after the tick it is set only if this tick's update() ate.    *)
(***************************************************************************)
C5_MoveLength ==
    [][ Ticked =>
            /\ Len(snake'.body) = Len(snake.body) + (IF snake.growing THEN 1 ELSE 0)
            /\ snake'.growing <=> (score' = score + 1) ]_vars

\* one food eaten, the growth consumed: four cells and the flag clear
C5_Witness ==
    /\ score = 1 /\ Len(snake.body) = 4 /\ ~snake.growing /\ ~gameOver

(***************************************************************************)
(* C6.  On the tick whose move puts the head on the food cell.  As         *)
(* claimed: score one higher, body one cell longer and food respawned off  *)
(* the snake by the end of that update(), when it has an end (its spawn    *)
(* has returned).                                                          *)
(***************************************************************************)
EatTick == Ticked /\ getHead(snake') = food

C6_Original ==
    [][ EatTick =>
            /\ score' = score + 1
            /\ Len(snake'.body) = Len(snake.body) + 1
            /\ pc' = "run" => (StrictlyInside(food) /\ FoodOffSnake)' ]_vars

\* C6 as amended: the score is one higher, the growth is pending (the flag
\* is set, the body gains its cell at the next move, so that length plus
\* pending growth is one more than before the tick), and, the spawn having
\* returned, the food is at a new position off the snake.
Pending(sn) == IF sn.growing THEN 1 ELSE 0

C6_EatTick ==
    [][ EatTick =>
            /\ score' = score + 1
            /\ snake'.growing
            /\ Len(snake'.body) + Pending(snake') = Len(snake.body) + Pending(snake) + 1
            /\ pc' = "run" => /\ food' # food
                              /\ (StrictlyInside(food) /\ FoodOffSnake)' ]_vars

\* the state after an eating tick from a three-cell snake: still three cells
C6_Witness ==
    /\ pc = "run" /\ score = 1 /\ snake.growing /\ Len(snake.body) = 3
    /\ FoodOffSnake

(***************************************************************************)
(* C7.  The score changes only by +1 steps and by restart(), which sets it *)
(* to 0; highScore never decreases; highScore >= score in every state.     *)
(***************************************************************************)
C7_Scores ==
    /\ [](highScore >= score)
    /\ [][ /\ Restarted => score' = 0
           /\ ~Restarted => score' \in {score, score + 1}
           /\ highScore' >= highScore ]_vars

\* a second session that has scored, after a first one that scored more
C7_Witness ==
    /\ pc = "run" /\ score = 1 /\ highScore = 2 /\ previousScore = 2

(***************************************************************************)
(* C8.  R in the game-over state: a fresh three-cell snake at the centre   *)
(* heading right, score 0, interval 140, apple counter 0, new food off the *)
(* snake, flags cleared, highScore, previousScore and board kept, and the  *)
(* loop goes on in Running.                                                *)
(***************************************************************************)
C8_Restart ==
    [][ \A k \in {CH_R, Lower(CH_R)} :
            GameOverKey(k) =>
                LET n == board.width
                IN  /\ snake'.body = << <<CDiv(n, 2), CDiv(n, 2)>>,
                                        <<CDiv(n, 2) - 1, CDiv(n, 2)>>,
                                        <<CDiv(n, 2) - 2, CDiv(n, 2)>> >>
                    /\ snake'.current = "RIGHT" /\ snake'.next = "RIGHT"
                    /\ ~snake'.growing
                    /\ score' = 0 /\ speedMs' = 140 /\ appleCount' = 0
                    /\ (StrictlyInside(food) /\ FoodOffSnake)'
                    /\ ~gameOver' /\ ~paused' /\ running'
                    /\ highScore' = highScore /\ previousScore' = previousScore
                    /\ board' = board
                    /\ pc' = "run" ]_vars

\* a restarted session after a game over with five apples eaten, which had
\* lowered the interval to 132 and left the apple counter at 1
C8_Witness ==
    /\ pc = "run" /\ running /\ ~gameOver /\ score = 0
    /\ previousScore = 5 /\ appleCount = 0 /\ speedMs = 140
    /\ snake = NewSnake(CDiv(board.width, 2), CDiv(board.height, 2))

(***************************************************************************)
(* C9.  As claimed: after construction the snake does not move until a     *)
(* directional key has been read.  Stated for the first ticks, on which no *)
(* key at all has been read before: a tick that reads no directional key   *)
(* leaves the body of the constructed snake where it is.                   *)
(***************************************************************************)
C9_Original ==
    [][ \A bytes \in PollInputs \ DirectionKeys :
            ( /\ snake = NewSnake(CDiv(board.width, 2), CDiv(board.height, 2))
              /\ score = 0
              /\ RunTick(bytes) )
            => snake'.body = snake.body ]_vars

(***************************************************************************)
(* C10.  As claimed for the ncurses draft: while waiting is true the body  *)
(* and the score do not change, and waiting ends only on a tick that reads *)
(* a directional key (w/a/s/d or an arrow); any other key, or none, leaves *)
(* the game waiting.                                                       *)
(***************************************************************************)
NcDirectionKeys ==
    { Lower(CH_W), Lower(CH_S), Lower(CH_A), Lower(CH_D),
      KEY_UP, KEY_DOWN, KEY_LEFT, KEY_RIGHT }

C10_Original ==
    [][ (nc.pc = "loop" /\ nc.waiting) =>
            /\ nc'.snake.body = nc.snake.body
            /\ nc'.score = nc.score
            /\ \A key \in NcKeys \ NcDirectionKeys : NcTick(key) => nc'.waiting ]_vars

(***************************************************************************)
(* C11.  As claimed for the ncurses draft: the direction a Snake::move     *)
(* uses is never the exact opposite of the direction of the previous move  *)
(* (right at first), also when keys were read while waiting.  The          *)
(* direction of the previous move is head minus second segment.            *)
(***************************************************************************)
NcLastMove(sn) == <<sn.body[1][1] - sn.body[2][1], sn.body[1][2] - sn.body[2][2]>>

C11_Original ==
    [][ (nc.pc = "loop" /\ ~nc.gameOver /\ nc'.snake.body # nc.snake.body) =>
            <<nc'.snake.dx, nc'.snake.dy>> #
                <<-NcLastMove(nc.snake)[1], -NcLastMove(nc.snake)[2]>> ]_vars

(***************************************************************************)
(* Vocabulary of the properties of the whole process of game.cpp.          *)
(***************************************************************************)
\* the bytes of the first key that stdin holds: an arrow key sends three
FirstKeyLen(bytes) ==
    IF Len(bytes) = 0 THEN 0
    ELSE IF /\ Len(bytes) >= 3
            /\ bytes[1] = KEY_ESC /\ bytes[2] = CH_LBRACKET
            /\ bytes[3] \in {CH_A, CH_B, CH_C, CH_D}
    THEN 3
    ELSE 1

\* the bytes this step has taken from stdin by getch(); what the destructors
\* discard when the process ends has not been read
BytesRead ==
    IF stdin'.ahead = stdin.ahead /\ pc # "done"
    THEN SubSeq(stdin.buf, 1, Len(stdin.buf) - Len(stdin'.buf))
    ELSE <<>>

\* the snakes that at most one call of setDirection leaves of sn
AfterAtMostOneCall(sn) ==
    {sn} \cup { setDirection(sn, d) : d \in {"UP", "DOWN", "LEFT", "RIGHT"} }

(***************************************************************************)
(* C12.  As claimed: the move of a tick follows at most one setDirection   *)
(* call since the move before, none on a tick resumed from the pause       *)
(* screen, and a Running tick takes one key from stdin and leaves every    *)
(* byte behind it for later ticks.                                         *)
(***************************************************************************)
C12_Original ==
    [][ /\ MainRunTick =>
              /\ stdin'.buf = Drop(stdin.buf, FirstKeyLen(stdin.buf))
              /\ pc' = "run" =>
                    \E sn \in AfterAtMostOneCall(snake) :
                        /\ snake'.body = move(sn).body
                        /\ snake'.current = move(sn).current
        /\ (MainPauseKey /\ pc' = "run") =>
              /\ snake'.body = move(snake).body
              /\ snake'.current = move(snake).current ]_vars

(***************************************************************************)
(* C13.  As claimed: a step that takes a q or Q from stdin, in Running, in *)
(* the pause screen or in the game-over screen, leaves running false, and  *)
(* once running is false the loop ends without another byte being read or  *)
(* the game being changed.                                                 *)
(***************************************************************************)
QuitRead == \E i \in 1..Len(BytesRead) : toupper(BytesRead[i]) = CH_Q

C13_Original ==
    [][ /\ QuitRead => ~running'
        /\ (pc = "run" /\ ~running) =>
              /\ BytesRead = <<>>
              /\ pc' \in {"run", "done"}
              /\ UNCHANGED <<snake, food, score, highScore, previousScore, gameOver>>
      ]_vars

(***************************************************************************)
(* C14.  As claimed: when the process has ended, by whichever quit and     *)
(* after any restarts, the mode of the terminal is the mode it had before  *)
(* main constructed its Terminal, and the cursor is shown.                 *)
(***************************************************************************)
C14_Original ==
    pc = "exited" =>
        /\ TerminalMode(term.tty) = TerminalMode(term.before)
        /\ term.tty.cursor

(***************************************************************************)
(* C15.  In the game-over screen a byte other than R, r, Q, q (P and the   *)
(* bytes of an arrow key among them) changes nothing of snake, food,       *)
(* score, highScore, previousScore and interval, and the screen stays; it  *)
(* is left only by R or r, into a running session, or by Q or q, after     *)
(* which the loop ends.                                                    *)
(***************************************************************************)
RestartKeys == {CH_R, Lower(CH_R)}

QuitKeys == {CH_Q, Lower(CH_Q)}

C15_GameOverKeys ==
    [][ /\ pc = "over" =>
              /\ \A k \in LoopKeys \ (RestartKeys \cup QuitKeys) :
                    GameOverKey(k) =>
                        /\ UNCHANGED <<snake, food, score, highScore, previousScore, speedMs>>
                        /\ pc' = "over"
              /\ pc' # "over" =>
                    \/ /\ \E k \in RestartKeys : GameOverKey(k)
                       /\ pc' = "run" /\ running' /\ ~gameOver'
                    \/ /\ \E k \in QuitKeys : GameOverKey(k)
                       /\ pc' = "run" /\ ~running'
        /\ (pc = "run" /\ ~running) => pc' = "done" ]_vars

\* the game-over screen after a session that scored, where P is read and
\* the screen stays
C15_Witness ==
    /\ pc = "over" /\ score = 1 /\ previousScore = 1
    /\ ENABLED (GameOverKey(CH_P) /\ pc' = "over")

(***************************************************************************)
(* C16.  As claimed: when the process has ended, the record in scores.txt  *)
(* holds the highScore the game had in memory at exit.                     *)
(***************************************************************************)
C16_Original ==
    pc = "exited" => scoresFile.highScore = highScore

(***************************************************************************)
(* C17.  In every state the interval is max(30, 140 - 8 * floor(score/4)), *)
(* the apple counter is score mod 4, and the interval lies in 30..140: it  *)
(* goes down by 8 on every 4th food of a session, not below 30.            *)
(***************************************************************************)
C17_Speed ==
    /\ speedMs = Max(30, 140 - 8 * (score \div 4))
    /\ appleCount = score % 4
    /\ 30 <= speedMs /\ speedMs <= 140

\* the 57th food of a session without a collision: the interval has reached
\* its floor
C17_Witness ==
    /\ score = 57 /\ speedMs = 30 /\ appleCount = 1

(***************************************************************************)
(* C18.  As claimed: whenever update() or restart() calls Food::spawn, an  *)
(* interior cell is free of the snake, and the game never hangs in spawn.  *)
(***************************************************************************)
FreeCell(body) ==
    \E x \in 1..(board.width - 2), y \in 1..(board.height - 2) : ~InBody(<<x, y>>, body)

C18_Original ==
    /\ [](pc # "spawn")
    /\ [][ (score' = score + 1 \/ Restarted) => FreeCell(snake'.body) ]_vars

(***************************************************************************)
(* C19.  In every state, two calls of Game::render in succession leave the *)
(* same grid buffer and write the same frame, and a call of render (the    *)
(* one before the loop of run() among them) changes neither the snake, the *)
(* food, a score nor a flag.                                               *)
(***************************************************************************)
C19_RenderTwice ==
    /\ [] LET once  == Rendered(board, food, snake)
              twice == Rendered(once, food, snake)
          IN  /\ twice.grid = once.grid
              /\ frame(twice, score, highScore, previousScore)
                     = frame(once, score, highScore, previousScore)
    /\ [][ (RenderCall \/ RunStart) =>
               UNCHANGED <<snake, food, score, highScore, previousScore, gameOver,
                           running, paused, speedMs, appleCount>> ]_vars

\* after a restart the grid still holds the last frame of the session before:
\* the first call of render changes it
C19_Witness ==
    /\ pc = "run" /\ previousScore = 1 /\ score = 0
    /\ Rendered(board, food, snake) # board

(***************************************************************************)
(* C20.  In game.cpp, snake_draft2.cpp and the ncurses draft the body of   *)
(* the snake has at least three segments in every state after              *)
(* construction, whatever moves, growths, game-overs and restarts led to   *)
(* it.                                                                     *)
(***************************************************************************)
C20_LengthAtLeast3 ==
    /\ pc # Off => Len(snake.body) >= 3
    /\ nc.pc # Off => Len(nc.snake.body) >= 3

\* game.cpp after two growths, a game-over, a restart and one more growth
C20_Witness ==
    /\ pc = "run" /\ previousScore = 2 /\ score = 1
    /\ Len(snake.body) = 4

(***************************************************************************)
(* C21.  As claimed for the class Snake alone: after any sequence of       *)
(* setDirection calls, the heading a move() uses is not the opposite of    *)
(* the heading of the move before, and the new head is not the cell the    *)
(* second segment had before the move.                                     *)
(***************************************************************************)
C21_Original ==
    [][ Snake_move =>
            /\ ~IsOpposite(snake'.current, snake.current)
            /\ getHead(snake') # snake.body[2] ]_vars

\* C21 amended: the same for every move() whose predecessor used one of the
\* four directions (all moves, when setDirection is never called with NONE):
\* the heading is not the opposite of the one before and the new head is not
\* on the cell of the second segment.
C21_NoReversal ==
    [][ (Snake_move /\ snake.current # "NONE") =>
            /\ ~IsOpposite(snake'.current, snake.current)
            /\ getHead(snake') # snake.body[2] ]_vars

\* a snake that has turned up, with a turn to the right pending: a call
\* setDirection(DOWN) is dropped and the next move goes right
C21_Witness ==
    /\ pc = "snake" /\ snake.current = "UP" /\ snake.next = "RIGHT"
    /\ getHead(snake) = Step(snake.body[2], "UP")
    /\ setDirection(snake, "DOWN") = snake
    /\ ENABLED Snake_move

(***************************************************************************)
(* C22.  As claimed: whenever gameOver has become true, showGameOver runs  *)
(* before run() returns: when the loop has ended with gameOver set,        *)
(* previousScore is the final score and scores.txt holds the record        *)
(* {previousScore, highScore}, also when the colliding tick read Q.        *)
(***************************************************************************)
C22_Original ==
    (pc = "done" /\ gameOver) =>
        /\ previousScore = score
        /\ scoresFile = [previousScore |-> score, highScore |-> highScore]

(***************************************************************************)
(* C23.  As claimed for the ncurses draft: every update(), the one whose   *)
(* move reaches the food included, advances the head by exactly one cell   *)
(* along the direction of the tick; on the food tick the body grows by     *)
(* exactly one cell and the score by exactly one.                          *)
(***************************************************************************)
\* a step in which update() of the draft ran
NcUpdated ==
    /\ nc.pc = "loop" /\ ~nc.gameOver /\ ~nc.waiting
    /\ nc'.snake.body # nc.snake.body

C23_Original ==
    [][ NcUpdated =>
            LET oneAhead == <<nc.snake.body[1][1] + nc'.snake.dx,
                              nc.snake.body[1][2] + nc'.snake.dy>>
            IN  /\ nc'.snake.body[1] = oneAhead
                /\ oneAhead = nc.food =>
                      /\ Len(nc'.snake.body) = Len(nc.snake.body) + 1
                      /\ nc'.score = nc.score + 1 ]_vars

(***************************************************************************)
(* C24.  As claimed: the bytes ESC '[' 'A' of the up arrow cause no        *)
(* setDirection call for a direction other than UP, at whichever poll they *)
(* are read.  The player types w, s, a in lower case only, so that a '['   *)
(* or an 'A' in stdin is a byte of an up arrow: a Running tick that reads  *)
(* one moves along the heading requested before, or up.                    *)
(***************************************************************************)
ArrowBytesRead ==
    \E i \in 1..Len(BytesRead) : BytesRead[i] \in {CH_LBRACKET, CH_A}

C24_Original ==
    [][ (MainRunTick /\ ArrowBytesRead /\ pc' = "run") =>
            snake'.current \in {snake.next, "UP"} ]_vars

(***************************************************************************)
(* C25.  The poll that reads P in Running, and every step taken in the     *)
(* pause screen that stays in it, leave body, heading, growth flag, food,  *)
(* score, highScore and tick interval as they are.  The pause screen is    *)
(* left by P only, to Running with the flag cleared, where update() of the *)
(* interrupted tick moves the snake, or by Q, with running false; every    *)
(* other key leaves the game where it is.                                  *)
(***************************************************************************)
PauseKeys == {CH_P, Lower(CH_P)}

PauseFrame == UNCHANGED <<snake, food, score, highScore, speedMs>>

C25_Pause ==
    [][ /\ (pc = "run" /\ pc' = "pause") => (paused' /\ PauseFrame)
        /\ (pc = "pause" /\ pc' = "pause") => (paused' /\ running' /\ PauseFrame)
        /\ (pc = "pause" /\ pc' # "pause") =>
              \/ /\ \E k \in PauseKeys : PauseKey(k)
                 /\ ~paused' /\ running' /\ pc' = "run"
                 /\ snake'.body = move(snake).body
              \/ /\ \E k \in QuitKeys : PauseKey(k)
                 /\ ~running'
        /\ \A k \in LoopKeys \ (PauseKeys \cup QuitKeys) :
              PauseKey(k) => UNCHANGED gvars ]_vars

\* paused in a session that has eaten, the growth still pending
C25_Witness ==
    /\ pc = "pause" /\ paused /\ running
    /\ score = 1 /\ snake.growing

(***************************************************************************)
(* C26.  The grid Game::render builds is determined by snake and food      *)
(* alone, later stamps overriding earlier ones: a cell holds the body      *)
(* symbol if a body cell other than body[0] is there, else the head symbol *)
(* if body[0] is there, else the food symbol if the food is there, else    *)
(* the border symbol on the outer ring and the empty symbol inside; stamps *)
(* outside the grid are dropped.  Checked in every state for the food      *)
(* where it is, on the head, on the second segment and outside the grid,   *)
(* and for the snake where it is and moved half a board to the left, where *)
(* part of it is outside; and for the grid every call of render leaves.    *)
(***************************************************************************)
ExpectedCell(b, fpos, sn, c) ==
    IF \E i \in 2..Len(sn.body) : sn.body[i] = c THEN EMOJI_SNAKE_BODY
    ELSE IF sn.body[1] = c THEN EMOJI_SNAKE_HEAD
    ELSE IF fpos = c THEN EMOJI_FOOD
    ELSE IF c[1] = 0 \/ c[1] = b.width - 1 \/ c[2] = 0 \/ c[2] = b.height - 1
    THEN BORDER_CELL
    ELSE EMPTY_CELL

ExpectedGrid(b, fpos, sn) ==
    [ c \in Cells(b.width, b.height) |-> ExpectedCell(b, fpos, sn, c) ]

Shifted(sn, off) ==
    [sn EXCEPT !.body = [ i \in 1..Len(sn.body) |->
                            <<sn.body[i][1] + off[1], sn.body[i][2] + off[2]>> ]]

StampFoods ==
    { food, snake.body[1], snake.body[2], <<-1, food[2]>>, <<food[1], board.height>> }

StampShifts == { <<0, 0>>, <<-(board.width \div 2), 0>> }

C26_RenderCells ==
    /\ [] \A f \in StampFoods, off \in StampShifts :
              render(board, f, Shifted(snake, off))
                  = ExpectedGrid(board, f, Shifted(snake, off))
    /\ [][ RenderCall => board'.grid = ExpectedGrid(board, food, snake) ]_vars

\* the frame of a collision with the wall: the head is stamped over a border
\* cell, and the food is shown
C26_Witness ==
    /\ gameOver /\ ~isInsideBoundaries(board, getHead(snake))
    /\ board.grid[getHead(snake)] = EMOJI_SNAKE_HEAD
    /\ board.grid[food] = EMOJI_FOOD
    /\ score = 1

(***************************************************************************)
(* C27.  A tick whose update() finds the moved head on a wall or on the    *)
(* body sets gameOver and leaves score, highScore, apple counter, tick     *)
(* interval and food position as they are; and gameOver is set by such a   *)
(* tick only.                                                              *)
(***************************************************************************)
Collided(sn) == ~isInsideBoundaries(board, getHead(sn)) \/ checkSelfCollision(sn)

C27_CollisionTick ==
    [][ /\ (Ticked /\ Collided(snake')) =>
              /\ gameOver'
              /\ UNCHANGED <<score, highScore, appleCount, speedMs, food>>
        /\ (~gameOver /\ gameOver') =>
              /\ Ticked /\ Collided(snake')
              /\ UNCHANGED <<score, highScore, appleCount, speedMs, food>> ]_vars

\* the state a collision tick leaves, in a session that has eaten twice,
\* before showGameOver has run
C27_Witness ==
    /\ pc = "run" /\ gameOver /\ running /\ Collided(snake)
    /\ score = 2 /\ highScore = 2 /\ appleCount = 2 /\ previousScore = 0

(***************************************************************************)
(* C28.  When no key is read while the game runs, a session, from the      *)
(* constructor or from restart(), ends by a collision with the right       *)
(* border after exactly width - 1 - floor(width/2) ticks: every tick       *)
(* advances the head one cell to the right on the row it started on,       *)
(* gameOver is set on the tick that brings it to column width - 1 and on   *)
(* no tick before, and that tick is reached.                               *)
(***************************************************************************)
\* under SpecIdle, the ticks of the session so far: the head has advanced
\* one column on each
IdleTicks == getHead(snake)[1] - CDiv(board.width, 2)

TicksToWall == board.width - 1 - CDiv(board.width, 2)

C28_IdleRun ==
    /\ [] /\ IdleTicks \in 0..TicksToWall
          /\ getHead(snake)[2] = CDiv(board.height, 2)
          /\ gameOver <=> IdleTicks = TicksToWall
    /\ [][ /\ IdleTick => IdleTicks' = IdleTicks + 1
           /\ Restarted => IdleTicks' = 0
           /\ (~IdleTick /\ ~Restarted) => IdleTicks' = IdleTicks ]_vars
    /\ (pc = "start" => IdleTicks = 0)
    /\ (running /\ ~gameOver) ~> gameOver

\* a second session that ended on the right border, food eaten on the way
C28_Witness ==
    /\ pc = "run" /\ gameOver /\ getHead(snake)[1] = board.width - 1
    /\ score = 1 /\ previousScore = 2

(***************************************************************************)
(* C29.  In every state between ticks of game.cpp the body length, plus    *)
(* one when growth is pending, is 3 + score.                               *)
(***************************************************************************)
C29_LengthIsScore ==
    Len(snake.body) + Pending(snake) = 3 + score

\* both growths consumed, in a session after a restart
C29_Witness ==
    /\ pc = "run" /\ score = 2 /\ Len(snake.body) = 5 /\ ~snake.growing
    /\ previousScore = 1

(***************************************************************************)
(* C30.  At the end of every update() and at every render of game.cpp,     *)
(* that is in every state between the iterations of run() and in its       *)
(* pause and game-over screens, the food is on no cell of the snake body,  *)
(* the head included.                                                      *)
(***************************************************************************)
C30_FoodOffSnake ==
    pc \in {"start", "run", "pause", "over", "done"} => FoodOffSnake

\* after the second food of a session was eaten: the head is where the food
\* was and the food has been respawned elsewhere
C30_Witness ==
    /\ pc = "run" /\ ~gameOver /\ score = 2 /\ snake.growing
    /\ FoodOffSnake /\ board = Rendered(board, food, snake)

(***************************************************************************)
(* C31.  In every state of game.cpp in which gameOver is false, on the     *)
(* board of side 10 and on the board of side 11, every cell of the snake   *)
(* body is strictly inside the border ring and every two consecutive body  *)
(* cells differ by exactly one unit step in x or in y.                     *)
(***************************************************************************)
Abs(n) == IF n < 0 THEN -n ELSE n

UnitStep(p, q) == Abs(p[1] - q[1]) + Abs(p[2] - q[2]) = 1

C31_BodyInsideConnected ==
    ~gameOver =>
        /\ board.width >= MinGameSize
        /\ \A i \in 1..Len(snake.body) : StrictlyInside(snake.body[i])
        /\ \A i \in 1..(Len(snake.body) - 1) : UnitStep(snake.body[i], snake.body[i + 1])

\* on the board of side 11: a snake of five cells that has turned, its head
\* in the column next to the left border, the game running
C31_Witness ==
    /\ board.width = MinGameSize + 1
    /\ pc = "run" /\ ~gameOver /\ Len(snake.body) = 5
    /\ getHead(snake)[1] = 1
    /\ snake.body[1][2] # snake.body[5][2]

====
